---- MODULE Spec2Model ----
(***************************************************************************)
(* noodles-cram: the compression header of a CRAM container.               *)
(*                                                                         *)
(* Write side: preservation_map::Builder (builder.rs) accumulates records   *)
(* into a substitution-matrix builder and a tag-ids-dictionary builder and  *)
(* is consumed by build().  Read side: read_compression_header             *)
(* (reader/compression_header.rs) reads one block, decompresses it and      *)
(* parses the preservation map, the data-series encodings and the tag       *)
(* encodings from the decompressed bytes.                                   *)
(*                                                                         *)
(* The sub-builders, the block layer, the segment parsers and the          *)
(* serializer are called by these files but defined elsewhere; they are    *)
(* modelled from the design document (sections 3, 4 and 6).                 *)
(***************************************************************************)
EXTENDS Integers, Sequences, FiniteSets, TLC

VARIABLES
    builder,           \* the preservation_map::Builder value
    bstate,            \* "live": the builder is owned by the caller; "moved": build(self) consumed it
    preservation_map,  \* <<>> before build(), <<PreservationMap>> after
    update_log,        \* history: the (reference_sequence, record) pairs passed to Builder::update
    setter_called,     \* history: some set_* was called on the builder
    source,            \* the bytes the reader reads from
    written,           \* history: the header the writer built, its bytes and the block's method
    damage,            \* history: how the written bytes were damaged before the reader got them
    rpc,               \* position of read_compression_header
    block,             \* the Block filled by read_block
    data,              \* block.decompressed_data()
    pos,               \* data_reader: index of the next unread byte of data
    segs,              \* the segments parsed so far (locals of read_compression_header)
    result,            \* <<>> while running, <<[ok |-> ...]>> once read_compression_header returned
    parse_log,         \* history: which parser ran, from which byte to which byte
    pair,              \* two preservation_map::Builder values owned by two containers
    hdr,               \* <<>> or <<Header>>: the SAM header record the caller holds
    last,              \* history: the last operation on the SAM header, its arguments and result
    subject,           \* the value a method or conversion is called on (Value, fields, Quality)
    outcome            \* the last call on subject and what it returned or has yielded so far

bvars == <<builder, bstate, preservation_map, update_log, setter_called>>
rvars == <<source, written, damage, rpc, block, data, pos, segs, result, parse_log>>
ovars == <<pair, hdr, last>>
fvars == <<subject, outcome>>
vars == <<builder, bstate, preservation_map, update_log, setter_called,
          source, written, damage, rpc, block, data, pos, segs, result, parse_log,
          pair, hdr, last, subject, outcome>>

(***************************************************************************)
(* Bounds of the model.                                                    *)
(***************************************************************************)
MaxUpdates == 3
MaxStream == 2

(***************************************************************************)
(* Bases, tags, records.                                                   *)
(***************************************************************************)
\* The fixed base-code order of the substitution matrix (design 3, 4.2).
BaseOrder == <<"A", "C", "G", "T">>

Bases == {BaseOrder[i] : i \in 1..Len(BaseOrder)}

BaseCode(b) == CHOOSE i \in 1..Len(BaseOrder) : BaseOrder[i] = b

SeqToSet(s) == {s[i] : i \in 1..Len(s)}

\* Schemas: ordered (tag key, value type) sequences as they appear on a record.
SchemaNMMD == <<<<"NM", "i">>, <<"MD", "Z">>>>
SchemaAS == <<<<"AS", "i">>>>
SchemaMDNM == <<<<"MD", "Z">>, <<"NM", "i">>>>
SchemaNMcMD == <<<<"NM", "C">>, <<"MD", "Z">>>>

\* A record as Builder::update sees it: its aligned read bases and its tags.
Rec(bases, tags) == [bases |-> bases, tags |-> tags]

\* An argument pair of Builder::update.
Arg(reference_sequence, record) == [reference_sequence |-> reference_sequence, record |-> record]

\* The (reference_sequence, record) pairs the model feeds to update.
UpdateArgs ==
    { Arg(<<"A", "A">>, Rec(<<"G", "G">>, SchemaNMMD)),
      Arg(<<"A", "A">>, Rec(<<"G", "C">>, SchemaAS)),
      Arg(<<"A", "T">>, Rec(<<"T", "N">>, SchemaNMMD)),
      Arg(<<"C", "G">>, Rec(<<"C", "G">>, <<>>)),
      Arg(<<"G", "T">>, Rec(<<"A", "A">>, SchemaMDNM)),
      Arg(<<"A", "A">>, Rec(<<"C", "T">>, SchemaNMcMD)) }

(***************************************************************************)
(* substitution_matrix::Builder (design 4.2).                              *)
(***************************************************************************)
\* frequencies[r][a]: mismatches seen with reference base r and read base a.
\* observed: history of the calls of update.
SubstitutionMatrixBuilderDefault ==
    [frequencies |-> [r \in Bases |-> [a \in Bases |-> 0]], observed |-> <<>>]

\* One aligned base: counted when both bases are unambiguous and differ.
CountBase(freq, r, a) ==
    IF r \in Bases /\ a \in Bases /\ r # a
    THEN [freq EXCEPT ![r][a] = @ + 1]
    ELSE freq

RECURSIVE CountBases(_, _, _, _)
CountBases(freq, reference_sequence, bases, i) ==
    IF i > Len(bases) \/ i > Len(reference_sequence)
    THEN freq
    ELSE CountBases(CountBase(freq, reference_sequence[i], bases[i]), reference_sequence, bases, i + 1)

SubstitutionMatrixBuilderUpdate(smb, reference_sequence, record) ==
    [frequencies |-> CountBases(smb.frequencies, reference_sequence, record.bases, 1),
     observed |-> Append(smb.observed, Arg(reference_sequence, record))]

\* a comes before b in the ranking of reference base r.
RanksBefore(freq, r, a, b) ==
    \/ freq[r][a] > freq[r][b]
    \/ freq[r][a] = freq[r][b] /\ BaseCode(a) < BaseCode(b)

\* The alternates of r, by descending frequency, ties in base-code order.
RankRow(freq, r) ==
    LET alts == Bases \ {r}
        rank(a) == Cardinality({b \in alts : RanksBefore(freq, r, b, a)})
    IN  [k \in 1..Cardinality(alts) |-> CHOOSE a \in alts : rank(a) = k - 1]

SubstitutionMatrixBuilderBuild(smb) == [r \in Bases |-> RankRow(smb.frequencies, r)]

\* SubstitutionMatrix decode: (reference base, rank 0..2) -> read base.
MatrixDecode(matrix, r, rank) == matrix[r][rank + 1]

(***************************************************************************)
(* tag_ids_dictionary::Builder (design 4.3).                               *)
(***************************************************************************)
\* schemas: the distinct schemas in first-seen order; schema i has index i - 1.
\* observed, assigned: history of the calls of update and the index each got.
TagIdsDictionaryBuilderDefault == [schemas |-> <<>>, observed |-> <<>>, assigned |-> <<>>]

HasSchema(schemas, schema) == \E i \in 1..Len(schemas) : schemas[i] = schema

\* TagIdsDictionary index_of: the 0-based index of a schema of the dictionary.
IndexOf(schemas, schema) == (CHOOSE i \in 1..Len(schemas) : schemas[i] = schema) - 1

TagIdsDictionaryBuilderUpdate(tdb, record) ==
    LET schemas == IF HasSchema(tdb.schemas, record.tags)
                   THEN tdb.schemas
                   ELSE Append(tdb.schemas, record.tags)
    IN  [schemas |-> schemas,
         observed |-> Append(tdb.observed, record),
         assigned |-> Append(tdb.assigned, IndexOf(schemas, record.tags))]

TagIdsDictionaryBuilderBuild(tdb) == tdb.schemas

(***************************************************************************)
(* preservation_map::Builder (builder.rs).                                 *)
(***************************************************************************)
PreservationMapNew(rn, ap, rr, substitution_matrix, tag_ids_dictionary) ==
    [read_names_included |-> rn,
     ap_data_series_delta |-> ap,
     reference_required |-> rr,
     substitution_matrix |-> substitution_matrix,
     tag_ids_dictionary |-> tag_ids_dictionary]

\* Mutation: reference_required starts false.
BuilderDefault_ReferenceNotRequired ==
    [read_names_included |-> TRUE,
     ap_data_series_delta |-> TRUE,
     reference_required |-> FALSE,
     substitution_matrix_builder |-> SubstitutionMatrixBuilderDefault,
     tag_ids_dictionary_builder |-> TagIdsDictionaryBuilderDefault]

BuilderDefault ==
    [read_names_included |-> TRUE,
     ap_data_series_delta |-> TRUE,
     reference_required |-> TRUE,
     substitution_matrix_builder |-> SubstitutionMatrixBuilderDefault,
     tag_ids_dictionary_builder |-> TagIdsDictionaryBuilderDefault]

\* Mutation: only the first record reaches the substitution-matrix builder.
BuilderUpdate_MatrixFirstOnly(b, reference_sequence, record) ==
    [b EXCEPT !.substitution_matrix_builder =
                  IF @.observed = <<>>
                  THEN SubstitutionMatrixBuilderUpdate(@, reference_sequence, record)
                  ELSE @,
              !.tag_ids_dictionary_builder =
                  TagIdsDictionaryBuilderUpdate(@, record)]

\* Mutation: the record is not forwarded to the substitution-matrix builder.
BuilderUpdate_NoMatrix(b, reference_sequence, record) ==
    [b EXCEPT !.tag_ids_dictionary_builder =
                  TagIdsDictionaryBuilderUpdate(@, record)]

\* Mutation: the record is not forwarded to the tag-ids-dictionary builder.
BuilderUpdate_NoTagIds(b, reference_sequence, record) ==
    [b EXCEPT !.substitution_matrix_builder =
                  SubstitutionMatrixBuilderUpdate(@, reference_sequence, record)]

BuilderUpdate(b, reference_sequence, record) ==
    [b EXCEPT !.substitution_matrix_builder =
                  SubstitutionMatrixBuilderUpdate(@, reference_sequence, record),
              !.tag_ids_dictionary_builder =
                  TagIdsDictionaryBuilderUpdate(@, record)]

\* Mutation: the dictionary is built from a fresh builder, not from self's.
BuilderBuild_DefaultDictionary(b) ==
    PreservationMapNew(b.read_names_included, b.ap_data_series_delta, b.reference_required,
                       SubstitutionMatrixBuilderBuild(b.substitution_matrix_builder),
                       TagIdsDictionaryBuilderBuild(TagIdsDictionaryBuilderDefault))

\* Mutation: the matrix is built from a fresh builder, not from self's.
BuilderBuild_DefaultMatrix(b) ==
    PreservationMapNew(b.read_names_included, b.ap_data_series_delta, b.reference_required,
                       SubstitutionMatrixBuilderBuild(SubstitutionMatrixBuilderDefault),
                       TagIdsDictionaryBuilderBuild(b.tag_ids_dictionary_builder))

BuilderBuild(b) ==
    LET substitution_matrix == SubstitutionMatrixBuilderBuild(b.substitution_matrix_builder)
        tag_ids_dictionary == TagIdsDictionaryBuilderBuild(b.tag_ids_dictionary_builder)
    IN  PreservationMapNew(b.read_names_included, b.ap_data_series_delta,
                           b.reference_required, substitution_matrix, tag_ids_dictionary)

\* No value under a method call or conversion.
FunctionsIdle ==
    /\ subject = <<>>
    /\ outcome = <<>>

\* No second container and no SAM header while the compression header runs.
OthersIdle ==
    /\ pair = <<>>
    /\ hdr = <<>>
    /\ last = <<>>
    /\ FunctionsIdle

\* The reader is idle while the builder runs.
ReaderIdle ==
    /\ source = <<>>
    /\ written = <<>>
    /\ damage = <<>>
    /\ rpc = "idle"
    /\ block = <<>>
    /\ data = <<>>
    /\ pos = 1
    /\ segs = <<>>
    /\ result = <<>>
    /\ parse_log = <<>>

Init ==
    /\ builder = BuilderDefault
    /\ bstate = "live"
    /\ preservation_map = <<>>
    /\ update_log = <<>>
    /\ setter_called = FALSE
    /\ ReaderIdle
    /\ OthersIdle

set_read_names_included(read_names_included) ==
    /\ bstate = "live"
    /\ builder' = [builder EXCEPT !.read_names_included = read_names_included]
    /\ setter_called' = TRUE
    /\ UNCHANGED <<bstate, preservation_map, update_log>>
    /\ UNCHANGED rvars
    /\ UNCHANGED ovars
    /\ UNCHANGED fvars

set_ap_data_series_delta(ap_data_series_delta) ==
    /\ bstate = "live"
    /\ builder' = [builder EXCEPT !.ap_data_series_delta = ap_data_series_delta]
    /\ setter_called' = TRUE
    /\ UNCHANGED <<bstate, preservation_map, update_log>>
    /\ UNCHANGED rvars
    /\ UNCHANGED ovars
    /\ UNCHANGED fvars

set_reference_required(reference_required) ==
    /\ bstate = "live"
    /\ builder' = [builder EXCEPT !.reference_required = reference_required]
    /\ setter_called' = TRUE
    /\ UNCHANGED <<bstate, preservation_map, update_log>>
    /\ UNCHANGED rvars
    /\ UNCHANGED ovars
    /\ UNCHANGED fvars

update(reference_sequence, record) ==
    /\ bstate = "live"
    /\ Len(update_log) < MaxUpdates
    /\ builder' = BuilderUpdate(builder, reference_sequence, record)
    /\ update_log' = Append(update_log, Arg(reference_sequence, record))
    /\ UNCHANGED <<bstate, preservation_map, setter_called>>
    /\ UNCHANGED rvars
    /\ UNCHANGED ovars
    /\ UNCHANGED fvars

\* Mutation: build(&self) borrows the builder, which stays usable.
build_by_reference ==
    /\ bstate = "live"
    /\ preservation_map' = <<BuilderBuild(builder)>>
    /\ UNCHANGED <<builder, bstate, update_log, setter_called>>
    /\ UNCHANGED rvars
    /\ UNCHANGED ovars
    /\ UNCHANGED fvars

\* build(self) takes the builder by value: the caller's builder is moved.
build ==
    /\ bstate = "live"
    /\ preservation_map' = <<BuilderBuild(builder)>>
    /\ bstate' = "moved"
    /\ UNCHANGED <<builder, update_log, setter_called>>
    /\ UNCHANGED rvars
    /\ UNCHANGED ovars
    /\ UNCHANGED fvars

SetReadNamesIncluded == \E b \in BOOLEAN : set_read_names_included(b)

SetApDataSeriesDelta == \E b \in BOOLEAN : set_ap_data_series_delta(b)

SetReferenceRequired == \E b \in BOOLEAN : set_reference_required(b)

Update == \E a \in UpdateArgs : update(a.reference_sequence, a.record)

Next ==
    \/ SetReadNamesIncluded
    \/ SetApDataSeriesDelta
    \/ SetReferenceRequired
    \/ Update
    \/ build

Spec == Init /\ [][Next]_vars

(***************************************************************************)
(* The serialized header (design 6):                                       *)
(* [flags][substitution matrix][tag-ids dictionary]                        *)
(* [data-series encoding table][tag encoding table], bytes 0..255.         *)
(***************************************************************************)
TagKeys == <<"NM", "MD", "AS">>

TagTypes == <<"i", "Z", "C">>

DataSeries == <<"BF", "AP", "RL">>

CodeIn(names, x) == (CHOOSE i \in 1..Len(names) : names[i] = x) - 1

\* Encoding descriptors: a codec family and the parameters of that family.
External(block_content_id) == [kind |-> "External", args |-> <<block_content_id>>]

Beta(offset, len) == [kind |-> "Beta", args |-> <<offset, len>>]

EncodingKinds == <<"External", "Beta">>

\* The number of parameters of the family with this tag byte.
ArgCount(tag) == IF tag = 1 THEN 1 ELSE 2

CompressionHeaderNew(pm, data_series_encodings, tag_encodings) ==
    [preservation_map |-> pm,
     data_series_encodings |-> data_series_encodings,
     tag_encodings |-> tag_encodings]

RECURSIVE Flatten(_)
Flatten(seqs) == IF seqs = <<>> THEN <<>> ELSE Head(seqs) \o Flatten(Tail(seqs))

BoolByte(b) == IF b THEN 1 ELSE 0

TagByte(tag) == CodeIn(TagKeys, tag[1]) * Len(TagTypes) + CodeIn(TagTypes, tag[2])

\* A matrix row in one byte, two bits per rank.
RowByte(row) ==
    (BaseCode(row[1]) - 1) * 16 + (BaseCode(row[2]) - 1) * 4 + (BaseCode(row[3]) - 1)

WriteSchema(schema) == <<Len(schema)>> \o [i \in 1..Len(schema) |-> TagByte(schema[i])]

WriteEncoding(e) == <<CodeIn(EncodingKinds, e.kind) + 1>> \o e.args

WritePreservationMap(pm) ==
    <<BoolByte(pm.read_names_included), BoolByte(pm.ap_data_series_delta),
      BoolByte(pm.reference_required)>>
    \o [i \in 1..Len(BaseOrder) |-> RowByte(pm.substitution_matrix[BaseOrder[i]])]
    \o <<Len(pm.tag_ids_dictionary)>>
    \o Flatten([i \in 1..Len(pm.tag_ids_dictionary) |-> WriteSchema(pm.tag_ids_dictionary[i])])

WriteDataSeriesEncodings(t) ==
    <<Len(t)>> \o Flatten([i \in 1..Len(t) |-> <<CodeIn(DataSeries, t[i][1])>> \o WriteEncoding(t[i][2])])

WriteTagEncodings(t) ==
    <<Len(t)>> \o Flatten([i \in 1..Len(t) |-> <<TagByte(t[i][1])>> \o WriteEncoding(t[i][2])])

WriteCompressionHeader(h) ==
    WritePreservationMap(h.preservation_map)
    \o WriteDataSeriesEncodings(h.data_series_encodings)
    \o WriteTagEncodings(h.tag_encodings)

(***************************************************************************)
(* Block (design 3, 4.1): method tag, raw size, compressed size, checksum, *)
(* payload.                                                                *)
(***************************************************************************)
RECURSIVE SumBytes(_)
SumBytes(bytes) == IF bytes = <<>> THEN 0 ELSE Head(bytes) + SumBytes(Tail(bytes))

Checksum(bytes) == SumBytes(bytes) % 256

\* Method 0 stores the bytes as they are, method 1 stores their complements.
Compress(method, bytes) ==
    IF method = 0 THEN bytes ELSE [i \in 1..Len(bytes) |-> 255 - bytes[i]]

WriteBlock(method, bytes) ==
    <<method, Len(bytes), Len(Compress(method, bytes)), Checksum(bytes)>> \o Compress(method, bytes)

Ok(val, p) == [ok |-> TRUE, val |-> val, pos |-> p, err |-> ""]

Fail(err) == [ok |-> FALSE, val |-> <<>>, pos |-> 0, err |-> err]

BlockDefault ==
    [compression_method |-> 0, raw_size |-> 0, compressed_size |-> 0, checksum |-> 0, payload |-> <<>>]

\* read_block: the four header bytes, then compressed_size payload bytes.
ReadBlock(src) ==
    IF Len(src) < 4 \/ Len(src) < 4 + src[3]
    THEN Fail("TruncatedInput")
    ELSE Ok([compression_method |-> src[1], raw_size |-> src[2], compressed_size |-> src[3],
             checksum |-> src[4], payload |-> SubSeq(src, 5, 4 + src[3])],
            5 + src[3])

\* Block::decompressed_data.
DecompressedData(b) ==
    IF b.compression_method \notin {0, 1}
    THEN Fail("UnsupportedMethod")
    ELSE LET bytes == IF b.compression_method = 0
                      THEN b.payload
                      ELSE [i \in 1..Len(b.payload) |-> 255 - b.payload[i]]
         IN  IF Len(bytes) # b.raw_size \/ Checksum(bytes) # b.checksum
             THEN Fail("CorruptPayload")
             ELSE Ok(bytes, 1)

(***************************************************************************)
(* The segment parsers (design 4.5).  Each reads d from index p and        *)
(* returns the value and the index of the first byte it did not read.      *)
(***************************************************************************)
ReadTag(byte) ==
    <<TagKeys[(byte \div Len(TagTypes)) + 1], TagTypes[(byte % Len(TagTypes)) + 1]>>

ReadRow(byte) ==
    <<BaseOrder[((byte \div 16) % 4) + 1], BaseOrder[((byte \div 4) % 4) + 1],
      BaseOrder[(byte % 4) + 1]>>

ReadEncoding(d, p) ==
    IF p > Len(d) THEN Fail("TruncatedHeader")
    ELSE IF d[p] \notin 1..Len(EncodingKinds) THEN Fail("InvalidData")
    ELSE IF p + ArgCount(d[p]) > Len(d) THEN Fail("TruncatedHeader")
    ELSE Ok([kind |-> EncodingKinds[d[p]], args |-> SubSeq(d, p + 1, p + ArgCount(d[p]))],
            p + 1 + ArgCount(d[p]))

RECURSIVE ReadTags(_, _, _)
ReadTags(d, p, n) ==
    IF n = 0 THEN Ok(<<>>, p)
    ELSE IF p > Len(d) THEN Fail("TruncatedHeader")
    ELSE IF d[p] >= Len(TagKeys) * Len(TagTypes) THEN Fail("InvalidData")
    ELSE LET rest == ReadTags(d, p + 1, n - 1)
         IN  IF rest.ok THEN Ok(<<ReadTag(d[p])>> \o rest.val, rest.pos) ELSE rest

RECURSIVE ReadSchemas(_, _, _)
ReadSchemas(d, p, n) ==
    IF n = 0 THEN Ok(<<>>, p)
    ELSE IF p > Len(d) THEN Fail("TruncatedHeader")
    ELSE LET schema == ReadTags(d, p + 1, d[p])
         IN  IF ~schema.ok THEN schema
             ELSE LET rest == ReadSchemas(d, schema.pos, n - 1)
                  IN  IF rest.ok THEN Ok(<<schema.val>> \o rest.val, rest.pos) ELSE rest

ReadTagIdsDictionary(d, p) ==
    IF p > Len(d) THEN Fail("TruncatedHeader") ELSE ReadSchemas(d, p + 1, d[p])

\* Flags (3 bytes), substitution matrix (4 bytes), tag-ids dictionary.
ReadPreservationMap(d, p) ==
    IF p + 6 > Len(d) THEN Fail("TruncatedHeader")
    ELSE LET dictionary == ReadTagIdsDictionary(d, p + 7)
         IN  IF ~dictionary.ok THEN dictionary
             ELSE Ok(PreservationMapNew(d[p] # 0, d[p + 1] # 0, d[p + 2] # 0,
                                        [r \in Bases |-> ReadRow(d[p + 2 + BaseCode(r)])],
                                        dictionary.val),
                     dictionary.pos)

RECURSIVE ReadDataSeriesEntries(_, _, _)
ReadDataSeriesEntries(d, p, n) ==
    IF n = 0 THEN Ok(<<>>, p)
    ELSE IF p > Len(d) THEN Fail("TruncatedHeader")
    ELSE IF d[p] >= Len(DataSeries) THEN Fail("InvalidData")
    ELSE LET encoding == ReadEncoding(d, p + 1)
         IN  IF ~encoding.ok THEN encoding
             ELSE LET rest == ReadDataSeriesEntries(d, encoding.pos, n - 1)
                  IN  IF rest.ok
                      THEN Ok(<<<<DataSeries[d[p] + 1], encoding.val>>>> \o rest.val, rest.pos)
                      ELSE rest

ReadDataSeriesEncodings(d, p) ==
    IF p > Len(d) THEN Fail("TruncatedHeader") ELSE ReadDataSeriesEntries(d, p + 1, d[p])

RECURSIVE ReadTagEntries(_, _, _)
ReadTagEntries(d, p, n) ==
    IF n = 0 THEN Ok(<<>>, p)
    ELSE IF p > Len(d) THEN Fail("TruncatedHeader")
    ELSE IF d[p] >= Len(TagKeys) * Len(TagTypes) THEN Fail("InvalidData")
    ELSE LET encoding == ReadEncoding(d, p + 1)
         IN  IF ~encoding.ok THEN encoding
             ELSE LET rest == ReadTagEntries(d, encoding.pos, n - 1)
                  IN  IF rest.ok
                      THEN Ok(<<<<ReadTag(d[p]), encoding.val>>>> \o rest.val, rest.pos)
                      ELSE rest

ReadTagEncodings(d, p) ==
    IF p > Len(d) THEN Fail("TruncatedHeader") ELSE ReadTagEntries(d, p + 1, d[p])

(***************************************************************************)
(* read_compression_header (reader/compression_header.rs).                 *)
(***************************************************************************)
\* The statements of read_compression_header, in program order.
Statements ==
    <<"read_block", "decompressed_data", "read_preservation_map",
      "read_data_series_encodings", "read_tag_encodings", "new", "done">>

\* Mutation: the tag encodings are parsed before the data-series encodings.
StatementAfter_TagsFirst(pc) ==
    CASE pc = "read_preservation_map" -> "read_tag_encodings"
      [] pc = "read_tag_encodings" -> "read_data_series_encodings"
      [] pc = "read_data_series_encodings" -> "new"
      [] OTHER -> Statements[CodeIn(Statements, pc) + 2]

StatementAfter(pc) == Statements[CodeIn(Statements, pc) + 2]

Call(name, from, r) == [call |-> name, from |-> from, to |-> r.pos, ok |-> r.ok]

\* Err(e): the callee's error, passed on by `?`.  Ok(CompressionHeader).
ReturnErr(err) == [ok |-> FALSE, header |-> <<>>, err |-> err]

ReturnOk(header) == [ok |-> TRUE, header |-> <<header>>, err |-> ""]

NoSegments == [preservation_map |-> <<>>, data_series_encodings |-> <<>>, tag_encodings |-> <<>>]

\* Mutation: the result of read_block is dropped instead of propagated.
read_block_ignoring_error ==
    /\ rpc = "read_block"
    /\ LET r == ReadBlock(source)
       IN  /\ parse_log' = Append(parse_log, Call("read_block", 1, r))
           /\ block' = IF r.ok THEN r.val ELSE block
           /\ rpc' = StatementAfter(rpc)
    /\ UNCHANGED <<source, written, damage, data, pos, segs, result>>
    /\ UNCHANGED bvars
    /\ UNCHANGED ovars
    /\ UNCHANGED fvars

\* let mut block = Block::default(); read_block(reader, &mut block)?;
read_block ==
    /\ rpc = "read_block"
    /\ LET r == ReadBlock(source)
       IN  /\ parse_log' = Append(parse_log, Call("read_block", 1, r))
           /\ IF r.ok
              THEN /\ block' = r.val
                   /\ rpc' = StatementAfter(rpc)
                   /\ UNCHANGED result
              ELSE /\ rpc' = "done"
                   /\ result' = <<ReturnErr(r.err)>>
                   /\ UNCHANGED block
    /\ UNCHANGED <<source, written, damage, data, pos, segs>>
    /\ UNCHANGED bvars
    /\ UNCHANGED ovars
    /\ UNCHANGED fvars

\* Mutation: the payload is parsed as it is stored, without decompression.
decompressed_data_skipped ==
    /\ rpc = "decompressed_data"
    /\ parse_log' = Append(parse_log, Call("decompressed_data", 1, Ok(block.payload, 1)))
    /\ data' = block.payload
    /\ pos' = 1
    /\ rpc' = StatementAfter(rpc)
    /\ UNCHANGED <<source, written, damage, block, segs, result>>
    /\ UNCHANGED bvars
    /\ UNCHANGED ovars
    /\ UNCHANGED fvars

\* Mutation: the decoded payload is handed on without the size and checksum test.
decompressed_data_unchecked ==
    /\ rpc = "decompressed_data"
    /\ LET bytes == Compress(block.compression_method, block.payload)
       IN  /\ parse_log' = Append(parse_log, Call("decompressed_data", 1, Ok(bytes, 1)))
           /\ data' = bytes
           /\ pos' = 1
           /\ rpc' = StatementAfter(rpc)
    /\ UNCHANGED <<source, written, damage, block, segs, result>>
    /\ UNCHANGED bvars
    /\ UNCHANGED ovars
    /\ UNCHANGED fvars

\* let data = block.decompressed_data(); let mut data_reader = &data[..];
\* decompressed_data returns the bytes themselves, not a Result: when it fails
\* the call does not return and read_compression_header yields no value.
decompressed_data ==
    /\ rpc = "decompressed_data"
    /\ LET r == DecompressedData(block)
       IN  /\ parse_log' = Append(parse_log, Call("decompressed_data", 1, r))
           /\ IF r.ok
              THEN /\ data' = r.val
                   /\ pos' = 1
                   /\ rpc' = StatementAfter(rpc)
              ELSE /\ rpc' = "panicked"
                   /\ UNCHANGED <<data, pos>>
    /\ UNCHANGED <<source, written, damage, block, segs, result>>
    /\ UNCHANGED bvars
    /\ UNCHANGED ovars
    /\ UNCHANGED fvars

\* let preservation_map = read_preservation_map(&mut data_reader)?;
read_preservation_map ==
    /\ rpc = "read_preservation_map"
    /\ LET r == ReadPreservationMap(data, pos)
       IN  /\ parse_log' = Append(parse_log, Call("read_preservation_map", pos, r))
           /\ IF r.ok
              THEN /\ segs' = [segs EXCEPT !.preservation_map = <<r.val>>]
                   /\ pos' = r.pos
                   /\ rpc' = StatementAfter(rpc)
                   /\ UNCHANGED result
              ELSE /\ rpc' = "done"
                   /\ result' = <<ReturnErr(r.err)>>
                   /\ UNCHANGED <<segs, pos>>
    /\ UNCHANGED <<source, written, damage, block, data>>
    /\ UNCHANGED bvars
    /\ UNCHANGED ovars
    /\ UNCHANGED fvars

\* let data_series_encodings = read_data_series_encodings(&mut data_reader)?;
read_data_series_encodings ==
    /\ rpc = "read_data_series_encodings"
    /\ LET r == ReadDataSeriesEncodings(data, pos)
       IN  /\ parse_log' = Append(parse_log, Call("read_data_series_encodings", pos, r))
           /\ IF r.ok
              THEN /\ segs' = [segs EXCEPT !.data_series_encodings = <<r.val>>]
                   /\ pos' = r.pos
                   /\ rpc' = StatementAfter(rpc)
                   /\ UNCHANGED result
              ELSE /\ rpc' = "done"
                   /\ result' = <<ReturnErr(r.err)>>
                   /\ UNCHANGED <<segs, pos>>
    /\ UNCHANGED <<source, written, damage, block, data>>
    /\ UNCHANGED bvars
    /\ UNCHANGED ovars
    /\ UNCHANGED fvars

\* Mutation: a failed parse of the tag encodings yields an empty table
\* (unwrap_or_default) instead of the error.
read_tag_encodings_or_default ==
    /\ rpc = "read_tag_encodings"
    /\ LET r == ReadTagEncodings(data, pos)
       IN  /\ parse_log' = Append(parse_log, Call("read_tag_encodings", pos, r))
           /\ segs' = [segs EXCEPT !.tag_encodings = <<IF r.ok THEN r.val ELSE <<>>>>]
           /\ pos' = IF r.ok THEN r.pos ELSE pos
           /\ rpc' = StatementAfter(rpc)
    /\ UNCHANGED <<source, written, damage, block, data, result>>
    /\ UNCHANGED bvars
    /\ UNCHANGED ovars
    /\ UNCHANGED fvars

\* let tag_encodings = read_tag_encodings(&mut data_reader)?;
read_tag_encodings ==
    /\ rpc = "read_tag_encodings"
    /\ LET r == ReadTagEncodings(data, pos)
       IN  /\ parse_log' = Append(parse_log, Call("read_tag_encodings", pos, r))
           /\ IF r.ok
              THEN /\ segs' = [segs EXCEPT !.tag_encodings = <<r.val>>]
                   /\ pos' = r.pos
                   /\ rpc' = StatementAfter(rpc)
                   /\ UNCHANGED result
              ELSE /\ rpc' = "done"
                   /\ result' = <<ReturnErr(r.err)>>
                   /\ UNCHANGED <<segs, pos>>
    /\ UNCHANGED <<source, written, damage, block, data>>
    /\ UNCHANGED bvars
    /\ UNCHANGED ovars
    /\ UNCHANGED fvars

\* Ok(CompressionHeader::new(preservation_map, data_series_encodings, tag_encodings))
new_compression_header ==
    /\ rpc = "new"
    /\ result' = <<ReturnOk(CompressionHeaderNew(segs.preservation_map[1],
                                                 segs.data_series_encodings[1],
                                                 segs.tag_encodings[1]))>>
    /\ rpc' = StatementAfter(rpc)
    /\ UNCHANGED <<source, written, damage, block, data, pos, segs, parse_log>>
    /\ UNCHANGED bvars
    /\ UNCHANGED ovars
    /\ UNCHANGED fvars

(***************************************************************************)
(* The read side's inputs: a header built from a record stream, written    *)
(* into a block, and the ways the bytes can be damaged on the way.         *)
(***************************************************************************)
Streams == UNION {[1..n -> UpdateArgs] : n \in 0..MaxStream}

RECURSIVE Feed(_, _)
Feed(b, stream) ==
    IF stream = <<>> THEN b
    ELSE Feed(BuilderUpdate(b, Head(stream).reference_sequence, Head(stream).record), Tail(stream))

DataSeriesTables ==
    { <<>>,
      << <<"BF", External(1)>>, <<"RL", Beta(0, 8)>> >> }

TagTables ==
    { <<>>,
      << <<<<"MD", "Z">>, External(2)>>, <<<<"NM", "C">>, Beta(1, 7)>> >> }

Methods == {0, 1}

\* The ways the bytes can be damaged between writer and reader: not at all;
\* the header bytes cut at c before they are put in the block; the block cut
\* at c; a block declaring a wrong raw size, a wrong checksum, an unknown method.
DamagesOf(bytes, method) ==
    {[kind |-> "none", cut |-> Len(bytes)],
     [kind |-> "raw_size", cut |-> Len(bytes)],
     [kind |-> "checksum", cut |-> Len(bytes)],
     [kind |-> "method", cut |-> Len(bytes)]}
    \cup {[kind |-> "header_cut", cut |-> c] : c \in 0..(Len(bytes) - 1)}
    \cup {[kind |-> "block_cut", cut |-> c] : c \in 0..(Len(bytes) + 3)}

Damaged(bytes, method, d) ==
    LET whole == WriteBlock(method, bytes)
    IN  CASE d.kind = "none" -> whole
          [] d.kind = "header_cut" -> WriteBlock(method, SubSeq(bytes, 1, d.cut))
          [] d.kind = "block_cut" -> SubSeq(whole, 1, d.cut)
          [] d.kind = "raw_size" -> [whole EXCEPT ![2] = @ + 10]
          [] d.kind = "checksum" -> [whole EXCEPT ![4] = (@ + 1) % 256]
          [] d.kind = "method" -> [whole EXCEPT ![1] = 9]

InitRead ==
    /\ \E stream \in Streams, rn \in BOOLEAN, ap \in BOOLEAN, rr \in BOOLEAN :
           /\ update_log = stream
           /\ builder = Feed([BuilderDefault EXCEPT !.read_names_included = rn,
                                                    !.ap_data_series_delta = ap,
                                                    !.reference_required = rr], stream)
    /\ bstate = "moved"
    /\ preservation_map = <<BuilderBuild(builder)>>
    /\ setter_called = TRUE
    /\ \E dse \in DataSeriesTables, te \in TagTables, method \in Methods :
           written = [header |-> CompressionHeaderNew(preservation_map[1], dse, te),
                      bytes |-> WriteCompressionHeader(
                                    CompressionHeaderNew(preservation_map[1], dse, te)),
                      method |-> method]
    /\ \E d \in DamagesOf(written.bytes, written.method) : damage = d
    /\ source = Damaged(written.bytes, written.method, damage)
    /\ rpc = "read_block"
    /\ block = BlockDefault
    /\ data = <<>>
    /\ pos = 1
    /\ segs = NoSegments
    /\ result = <<>>
    /\ parse_log = <<>>
    /\ OthersIdle

NextRead ==
    \/ read_block
    \/ decompressed_data
    \/ read_preservation_map
    \/ read_data_series_encodings
    \/ read_tag_encodings
    \/ new_compression_header

SpecRead == InitRead /\ [][NextRead]_vars

(***************************************************************************)
(* Properties of the write side (Spec).                                     *)
(***************************************************************************)
Built == preservation_map # <<>>

BuiltMap == preservation_map[1]

TagBuilder == builder.tag_ids_dictionary_builder

MatrixBuilder == builder.substitution_matrix_builder

\* C5: a builder on which no setter was called has all three flags true, and
\* so has the PreservationMap built from it, after any number of updates.
C5_DefaultFlagsTrue ==
    ~setter_called =>
        /\ builder.read_names_included /\ builder.ap_data_series_delta
        /\ builder.reference_required
        /\ Built => /\ BuiltMap.read_names_included
                    /\ BuiltMap.ap_data_series_delta
                    /\ BuiltMap.reference_required

C5_Witness == Built /\ ~setter_called /\ Len(update_log) >= 2

\* The lifecycle of design 4.6; Accumulating covers zero or more updates.
Phase ==
    IF bstate = "moved" THEN "Built"
    ELSE IF update_log = <<>> /\ ~setter_called THEN "Empty" ELSE "Accumulating"

PhaseRank == CASE Phase = "Empty" -> 0 [] Phase = "Accumulating" -> 1 [] Phase = "Built" -> 2

\* C6: the lifecycle only moves forward (Empty, Accumulating, Built); a
\* PreservationMap exists exactly when the builder was consumed, and once it
\* exists no step changes it, the consumed builder or what the builder saw.
C6_BuiltIsFinal ==
    /\ [](Built <=> bstate = "moved")
    /\ [][/\ PhaseRank' >= PhaseRank
          /\ Built => /\ preservation_map' = preservation_map
                      /\ bstate' = "moved"
                      /\ builder' = builder
                      /\ update_log' = update_log
                      /\ setter_called' = setter_called]_vars

C6_Witness == Phase = "Built" /\ Len(update_log) >= 1 /\ setter_called

\* C7: after n updates both sub-builders have observed exactly the n records
\* passed to update, once each, in the order of the calls (the matrix builder
\* with the reference bytes).
C7_UpdateForwardsOnce ==
    /\ MatrixBuilder.observed = update_log
    /\ TagBuilder.observed = [i \in 1..Len(update_log) |-> update_log[i].record]

C7_Witness ==
    /\ Len(update_log) >= 2
    /\ update_log[1] # update_log[2]
    /\ Len(MatrixBuilder.observed) = Len(update_log)

\* The tags of the i-th record passed to update.
TagsAt(i) == update_log[i].record.tags

NoTwoEqual(schemas) ==
    \A i, j \in 1..Len(schemas) : schemas[i] = schemas[j] => i = j

\* C8: the dictionary (in the builder, and once built) holds no two equal
\* schemas; every record passed to update has its schema in it, and two
\* records with the same ordered (key, type) sequence have the same index.
C8_SchemaStability ==
    /\ NoTwoEqual(TagBuilder.schemas)
    /\ Len(TagBuilder.assigned) = Len(update_log)
    /\ \A i, j \in 1..Len(update_log) :
           TagsAt(i) = TagsAt(j) => TagBuilder.assigned[i] = TagBuilder.assigned[j]
    /\ \A i \in 1..Len(update_log) :
           /\ HasSchema(TagBuilder.schemas, TagsAt(i))
           /\ IndexOf(TagBuilder.schemas, TagsAt(i)) = TagBuilder.assigned[i]
    /\ Built =>
           /\ NoTwoEqual(BuiltMap.tag_ids_dictionary)
           /\ \A i \in 1..Len(update_log) :
                  /\ HasSchema(BuiltMap.tag_ids_dictionary, TagsAt(i))
                  /\ IndexOf(BuiltMap.tag_ids_dictionary, TagsAt(i)) = TagBuilder.assigned[i]

C8_Witness ==
    /\ Built
    /\ Len(update_log) = 3
    /\ TagsAt(1) = TagsAt(3)
    /\ TagsAt(1) # TagsAt(2)
    /\ update_log[1] # update_log[3]

\* The position of the first record with this schema.
FirstSeen(schema) ==
    CHOOSE i \in 1..Len(update_log) :
        /\ TagsAt(i) = schema
        /\ \A k \in 1..(i - 1) : TagsAt(k) # schema

\* The dictionary lists exactly the schemas seen, in the order in which each
\* was first seen; position p has index p - 1.
FirstSeenOrder(schemas) ==
    /\ SeqToSet(schemas) = {TagsAt(i) : i \in 1..Len(update_log)}
    /\ \A p, q \in 1..Len(schemas) : p < q => FirstSeen(schemas[p]) < FirstSeen(schemas[q])

IsPrefix(s, t) == Len(s) <= Len(t) /\ \A i \in 1..Len(s) : s[i] = t[i]

\* C9: indices are given in first-seen order, contiguously from 0, and an
\* update never changes an index given before; the records {NM:i,MD:Z},
\* {AS:i}, {NM:i,MD:Z} build the dictionary [{NM:i,MD:Z}, {AS:i}] and the
\* third record has index 0.
C9_FirstSeenIndices ==
    /\ [](/\ FirstSeenOrder(TagBuilder.schemas)
          /\ {TagBuilder.assigned[i] : i \in 1..Len(update_log)} = 0..(Len(TagBuilder.schemas) - 1)
          /\ Built => /\ FirstSeenOrder(BuiltMap.tag_ids_dictionary)
                      /\ \A i \in 1..Len(update_log) :
                             BuiltMap.tag_ids_dictionary[TagBuilder.assigned[i] + 1] = TagsAt(i)
          /\ (Built /\ [i \in 1..Len(update_log) |-> TagsAt(i)] = <<SchemaNMMD, SchemaAS, SchemaNMMD>>) =>
                 /\ BuiltMap.tag_ids_dictionary = <<SchemaNMMD, SchemaAS>>
                 /\ TagBuilder.assigned = <<0, 1, 0>>)
    /\ [][/\ IsPrefix(TagBuilder.schemas, TagBuilder.schemas')
          /\ IsPrefix(TagBuilder.assigned, TagBuilder.assigned')]_vars

C9_Witness ==
    /\ Built
    /\ [i \in 1..Len(update_log) |-> TagsAt(i)] = <<SchemaNMMD, SchemaAS, SchemaNMMD>>
    /\ BuiltMap.tag_ids_dictionary = <<SchemaNMMD, SchemaAS>>

\* Mismatches of reference base r read as a, counted over the calls of update.
Mismatches(r, a) ==
    Cardinality({ij \in (1..Len(update_log)) \X (1..2) :
        /\ ij[2] <= Len(update_log[ij[1]].record.bases)
        /\ ij[2] <= Len(update_log[ij[1]].reference_sequence)
        /\ update_log[ij[1]].reference_sequence[ij[2]] = r
        /\ update_log[ij[1]].record.bases[ij[2]] = a})

\* The frequencies of the design's example: reference A read as G x5, C x3, T x1.
ExampleFrequencies ==
    [r \in Bases |-> [a \in Bases |->
        IF r # "A" THEN 0
        ELSE CASE a = "G" -> 5 [] a = "C" -> 3 [] a = "T" -> 1 [] OTHER -> 0]]

\* C10: each row of the built matrix lists the 3 alternates of its reference
\* base by descending mismatch count, equal counts in base-code order; the
\* counts G x5, C x3, T x1 for reference A rank as [G, C, T], rank 0 being G.
C10_MatrixRanking ==
    /\ Built =>
           \A r \in Bases :
               LET row == BuiltMap.substitution_matrix[r]
               IN  /\ Len(row) = 3
                   /\ SeqToSet(row) = Bases \ {r}
                   /\ \A i, j \in 1..3 : i < j =>
                          \/ Mismatches(r, row[i]) > Mismatches(r, row[j])
                          \/ /\ Mismatches(r, row[i]) = Mismatches(r, row[j])
                             /\ BaseCode(row[i]) < BaseCode(row[j])
    /\ LET m == SubstitutionMatrixBuilderBuild([frequencies |-> ExampleFrequencies, observed |-> <<>>])
       IN  m["A"] = <<"G", "C", "T">> /\ MatrixDecode(m, "A", 0) = "G"

C10_Witness ==
    /\ Built
    /\ Mismatches("A", "G") > Mismatches("A", "C")
    /\ Mismatches("A", "C") > Mismatches("A", "T")
    /\ Mismatches("A", "T") > 0
    /\ Mismatches("G", "A") = Mismatches("G", "C")
    /\ MatrixDecode(BuiltMap.substitution_matrix, "A", 0) = "G"

\* The orders in which n calls of update can be made.
CallOrders(n) == {p \in [1..n -> 1..n] : \A i, j \in 1..n : p[i] = p[j] => i = j}

\* The calls of log, made in the order p.
Permuted(log, p) == [i \in 1..Len(log) |-> log[p[i]]]

\* The builder after the calls of stream on a fresh builder.
Replayed(stream) ==
    IF stream = <<>> THEN BuilderDefault
    ELSE LET Step[i \in 1..Len(stream)] ==
                 BuilderUpdate(IF i = 1 THEN BuilderDefault ELSE Step[i - 1],
                               stream[i].reference_sequence, stream[i].record)
         IN  Step[Len(stream)]

\* Two alternates of one reference base with the same positive mismatch count.
TiedAlternates ==
    \E r \in Bases : \E a, b \in Bases \ {r} :
        a # b /\ Mismatches(r, a) = Mismatches(r, b) /\ Mismatches(r, a) > 0

\* C11: the calls of update a PreservationMap was built from, made in any
\* other order on a fresh builder, build the same substitution matrix as the
\* order they were made in, tied mismatch counts included.
C11_OrderInvariance ==
    Built =>
        \A p \in CallOrders(Len(update_log)) :
            BuilderBuild(Replayed(Permuted(update_log, p))).substitution_matrix
                = BuiltMap.substitution_matrix

C11_Witness ==
    /\ Built
    /\ Len(update_log) = MaxUpdates
    /\ \A i, j \in 1..Len(update_log) : i # j => update_log[i] # update_log[j]
    /\ TiedAlternates
    /\ BuiltMap.substitution_matrix # SubstitutionMatrixBuilderBuild(SubstitutionMatrixBuilderDefault)

(***************************************************************************)
(* Properties of the read side (SpecRead).                                  *)
(***************************************************************************)
Returned == result # <<>>

ReturnedOk == Returned /\ result[1].ok

ReturnedErr == Returned /\ ~result[1].ok

CallNames == [i \in 1..Len(parse_log) |-> parse_log[i].call]

\* C1: the calls made are, in this order and each at most once, read_block,
\* decompressed_data, read_preservation_map, read_data_series_encodings,
\* read_tag_encodings; the parsers read the decompressed bytes of that one
\* block, the first from its first byte and each next one from the byte where
\* the one before stopped; a header is returned only after all five calls.
C1_SegmentOrder ==
    /\ IsPrefix(CallNames, <<"read_block", "decompressed_data", "read_preservation_map",
                             "read_data_series_encodings", "read_tag_encodings">>)
    /\ Len(parse_log) >= 3 =>
           /\ block = ReadBlock(source).val
           /\ data = DecompressedData(block).val
           /\ parse_log[3].from = 1
    /\ \A i \in 4..Len(parse_log) :
           /\ parse_log[i - 1].ok
           /\ parse_log[i].from = parse_log[i - 1].to
    /\ ReturnedOk => Len(parse_log) = 5

C1_Witness ==
    /\ ReturnedOk
    /\ parse_log[5].from > parse_log[4].from + 1
    /\ parse_log[4].from > 8
    /\ parse_log[5].to = Len(data) + 1
    /\ parse_log[5].to > parse_log[5].from + 1

\* C2: a header is returned only when read_block and all three parsers
\* succeeded, and it is made of the three parsed segments; once read_block or
\* a parser fails no further call is made, the function has returned, and
\* what it returned is an error holding no header.
C2_AtomicParse ==
    /\ ReturnedOk =>
           /\ Len(parse_log) = 5
           /\ \A i \in 1..5 : parse_log[i].ok
           /\ result[1].header =
                  <<CompressionHeaderNew(segs.preservation_map[1],
                                         segs.data_series_encodings[1],
                                         segs.tag_encodings[1])>>
    /\ \A i \in 1..Len(parse_log) :
           (~parse_log[i].ok /\ parse_log[i].call # "decompressed_data") =>
               /\ i = Len(parse_log)
               /\ rpc = "done"
               /\ ReturnedErr
               /\ result[1].header = <<>>
    /\ Returned <=> rpc = "done"
    /\ Len(result) <= 1

C2_Witness ==
    /\ ReturnedErr
    /\ result[1].header = <<>>
    /\ Len(parse_log) = 5
    /\ segs.preservation_map # <<>>
    /\ segs.data_series_encodings # <<>>
    /\ Len(segs.data_series_encodings[1]) > 0

\* C3: when the serialized header was cut anywhere before its end, the read
\* never returns a header: it ends, and ends with the error TruncatedHeader.
C3_TruncationSafety ==
    damage.kind = "header_cut" =>
        /\ ~ReturnedOk
        /\ rpc # "panicked"
        /\ rpc \in {"new", "done"} => ReturnedErr /\ result[1].err = "TruncatedHeader"

C3_Witness ==
    /\ damage.kind = "header_cut"
    /\ damage.cut = Len(written.bytes) - 1
    /\ Len(written.header.tag_encodings) > 0
    /\ ReturnedErr
    /\ result[1].err = "TruncatedHeader"
    /\ segs.data_series_encodings # <<>>

\* C4: reading back the undamaged bytes of a header built from a record
\* stream returns a header equal to the built one: the three flags, the
\* substitution matrix, the tag-ids dictionary and both encoding tables.
C4_RoundTrip ==
    damage.kind = "none" =>
        /\ rpc # "panicked"
        /\ ~ReturnedErr
        /\ rpc = "done" =>
               /\ ReturnedOk
               /\ LET h == result[1].header[1]
                      pm == BuilderBuild(Feed([BuilderDefault EXCEPT
                                !.read_names_included = builder.read_names_included,
                                !.ap_data_series_delta = builder.ap_data_series_delta,
                                !.reference_required = builder.reference_required], update_log))
                  IN  /\ h = written.header
                      /\ h.preservation_map = pm
                      /\ h.preservation_map.read_names_included = builder.read_names_included
                      /\ h.preservation_map.ap_data_series_delta = builder.ap_data_series_delta
                      /\ h.preservation_map.reference_required = builder.reference_required
                      /\ h.preservation_map.substitution_matrix = pm.substitution_matrix
                      /\ h.preservation_map.tag_ids_dictionary = pm.tag_ids_dictionary
                      /\ h.data_series_encodings = written.header.data_series_encodings
                      /\ h.tag_encodings = written.header.tag_encodings

C4_Witness ==
    /\ damage.kind = "none"
    /\ ReturnedOk
    /\ written.method = 1
    /\ Len(update_log) = 2
    /\ Len(result[1].header[1].preservation_map.tag_ids_dictionary) = 2
    /\ result[1].header[1].preservation_map.substitution_matrix["A"] = <<"G", "C", "T">>
    /\ ~result[1].header[1].preservation_map.ap_data_series_delta
    /\ result[1].header[1].preservation_map.reference_required
    /\ Len(result[1].header[1].data_series_encodings) = 2
    /\ Len(result[1].header[1].tag_encodings) = 2

\* The block was read whole and names a known method, but its payload decodes
\* to bytes of another length than raw_size or of another checksum.
CorruptBlock ==
    /\ parse_log # <<>>
    /\ parse_log[1].ok
    /\ block.compression_method \in Methods
    /\ LET bytes == Compress(block.compression_method, block.payload)
       IN  Len(bytes) # block.raw_size \/ Checksum(bytes) # block.checksum

ParserNames == {"read_preservation_map", "read_data_series_encodings", "read_tag_encodings"}

\* C13: a block whose decoded payload has not raw_size bytes or not the
\* declared checksum is rejected by decompressed_data with CorruptPayload; no
\* byte of it reaches a parser, no segment is parsed and no header is returned.
C13_CorruptPayloadRejected ==
    CorruptBlock =>
        /\ DecompressedData(block) = Fail("CorruptPayload")
        /\ data = <<>>
        /\ \A i \in 1..Len(parse_log) : parse_log[i].call \notin ParserNames
        /\ segs = NoSegments
        /\ ~ReturnedOk
        /\ rpc \in {"decompressed_data", "panicked"}

C13_Witness ==
    /\ CorruptBlock
    /\ damage.kind = "raw_size"
    /\ block.raw_size = Len(block.payload) + 10
    /\ written.method = 1
    /\ Len(parse_log) = 2
    /\ ~parse_log[2].ok
    /\ rpc = "panicked"

\* C14: when the source holds fewer bytes than the block's sizes require,
\* read_block fails with TruncatedInput, it is the only call made, and
\* read_compression_header returns that error: nothing is decompressed or parsed.
C14_TruncatedInput ==
    damage.kind = "block_cut" =>
        /\ Len(source) < Len(WriteBlock(written.method, written.bytes))
        /\ ReadBlock(source) = Fail("TruncatedInput")
        /\ parse_log # <<>> =>
               /\ parse_log = <<Call("read_block", 1, Fail("TruncatedInput"))>>
               /\ rpc = "done"
               /\ result = <<ReturnErr("TruncatedInput")>>
               /\ block = BlockDefault
               /\ data = <<>>
               /\ segs = NoSegments

C14_Witness ==
    /\ damage.kind = "block_cut"
    /\ damage.cut > 4
    /\ Len(source) = 3 + source[3]
    /\ ReturnedErr
    /\ result[1].err = "TruncatedInput"
    /\ Len(parse_log) = 1

\* C15 (as claimed): every failed step of read_compression_header ends it with
\* an error value returned to the caller.  It does not hold: a failure of
\* decompressed_data (line 23, no `?`) ends the function without a value.
C15_EveryFailureSurfaced ==
    \A i \in 1..Len(parse_log) :
        ~parse_log[i].ok =>
            /\ i = Len(parse_log)
            /\ rpc = "done"
            /\ ReturnedErr
            /\ result[1].err # ""

(***************************************************************************)
(* Two containers, each with its own preservation_map::Builder, driven by  *)
(* interleaved calls (SpecPair).                                            *)
(***************************************************************************)
MaxPairOps == 4

Containers == {1, 2}

\* The records the two containers see.
PairArgs ==
    { Arg(<<"A", "T">>, Rec(<<"T", "N">>, SchemaNMMD)),
      Arg(<<"A", "A">>, Rec(<<"C", "T">>, SchemaAS)) }

NoArg == Arg(<<>>, Rec(<<>>, <<>>))

\* A call made on a builder: a setter with its flag, update with its
\* arguments, or build.
Called(op, flag, arg) == [op |-> op, flag |-> flag, arg |-> arg]

\* A container's builder as its owner holds it, and the calls made on it.
ContainerNew ==
    [builder |-> BuilderDefault, bstate |-> "live", preservation_map |-> <<>>, calls |-> <<>>]

PairOps == Len(pair[1].calls) + Len(pair[2].calls)

InitPair ==
    /\ builder = BuilderDefault
    /\ bstate = "live"
    /\ preservation_map = <<>>
    /\ update_log = <<>>
    /\ setter_called = FALSE
    /\ ReaderIdle
    /\ pair = [i \in Containers |-> ContainerNew]
    /\ hdr = <<>>
    /\ last = <<>>
    /\ FunctionsIdle

pair_set_read_names_included(i, read_names_included) ==
    /\ pair[i].bstate = "live"
    /\ PairOps < MaxPairOps
    /\ pair' = [pair EXCEPT
           ![i].builder.read_names_included = read_names_included,
           ![i].calls = Append(@, Called("set_read_names_included", read_names_included, NoArg))]
    /\ UNCHANGED <<bvars, rvars, hdr, last>>
    /\ UNCHANGED fvars

pair_set_ap_data_series_delta(i, ap_data_series_delta) ==
    /\ pair[i].bstate = "live"
    /\ PairOps < MaxPairOps
    /\ pair' = [pair EXCEPT
           ![i].builder.ap_data_series_delta = ap_data_series_delta,
           ![i].calls = Append(@, Called("set_ap_data_series_delta", ap_data_series_delta, NoArg))]
    /\ UNCHANGED <<bvars, rvars, hdr, last>>
    /\ UNCHANGED fvars

pair_set_reference_required(i, reference_required) ==
    /\ pair[i].bstate = "live"
    /\ PairOps < MaxPairOps
    /\ pair' = [pair EXCEPT
           ![i].builder.reference_required = reference_required,
           ![i].calls = Append(@, Called("set_reference_required", reference_required, NoArg))]
    /\ UNCHANGED <<bvars, rvars, hdr, last>>
    /\ UNCHANGED fvars

\* Mutation: the dictionary keeps its schemas in no fixed order (as a
\* hash-ordered collection would).
pair_update_unordered(i, reference_sequence, record) ==
    /\ pair[i].bstate = "live"
    /\ PairOps < MaxPairOps
    /\ LET b == BuilderUpdate(pair[i].builder, reference_sequence, record)
           schemas == b.tag_ids_dictionary_builder.schemas
       IN  \E p \in {q \in [1..Len(schemas) -> 1..Len(schemas)] :
                          \A j, k \in 1..Len(schemas) : q[j] = q[k] => j = k} :
               pair' = [pair EXCEPT
                   ![i].builder = [b EXCEPT !.tag_ids_dictionary_builder.schemas =
                                                [j \in 1..Len(schemas) |-> schemas[p[j]]]],
                   ![i].calls = Append(@, Called("update", FALSE, Arg(reference_sequence, record)))]
    /\ UNCHANGED <<bvars, rvars, hdr, last>>
    /\ UNCHANGED fvars

\* Mutation: the tag-ids dictionary builder is one object shared by all
\* containers (a static), so an update on one is seen by the other.
pair_update_shared(i, reference_sequence, record) ==
    /\ pair[i].bstate = "live"
    /\ PairOps < MaxPairOps
    /\ pair' = [j \in Containers |->
           IF j = i
           THEN [pair[j] EXCEPT
                    !.builder = BuilderUpdate(@, reference_sequence, record),
                    !.calls = Append(@, Called("update", FALSE, Arg(reference_sequence, record)))]
           ELSE [pair[j] EXCEPT
                    !.builder.tag_ids_dictionary_builder =
                        TagIdsDictionaryBuilderUpdate(@, record)]]
    /\ UNCHANGED <<bvars, rvars, hdr, last>>
    /\ UNCHANGED fvars

\* update(&mut self, ..): the call changes the builder it is made on.
pair_update(i, reference_sequence, record) ==
    /\ pair[i].bstate = "live"
    /\ PairOps < MaxPairOps
    /\ pair' = [pair EXCEPT
           ![i].builder = BuilderUpdate(@, reference_sequence, record),
           ![i].calls = Append(@, Called("update", FALSE, Arg(reference_sequence, record)))]
    /\ UNCHANGED <<bvars, rvars, hdr, last>>
    /\ UNCHANGED fvars

\* build(self): the container's builder is moved into its PreservationMap.
pair_build(i) ==
    /\ pair[i].bstate = "live"
    /\ PairOps < MaxPairOps
    /\ pair' = [pair EXCEPT
           ![i].preservation_map = <<BuilderBuild(pair[i].builder)>>,
           ![i].bstate = "moved",
           ![i].calls = Append(@, Called("build", FALSE, NoArg))]
    /\ UNCHANGED <<bvars, rvars, hdr, last>>
    /\ UNCHANGED fvars

PairSetReadNamesIncluded ==
    \E i \in Containers, b \in BOOLEAN : pair_set_read_names_included(i, b)

PairSetApDataSeriesDelta ==
    \E i \in Containers, b \in BOOLEAN : pair_set_ap_data_series_delta(i, b)

PairSetReferenceRequired ==
    \E i \in Containers, b \in BOOLEAN : pair_set_reference_required(i, b)

PairUpdate ==
    \E i \in Containers, a \in PairArgs : pair_update(i, a.reference_sequence, a.record)

PairBuild == \E i \in Containers : pair_build(i)

NextPair ==
    \/ PairSetReadNamesIncluded
    \/ PairSetApDataSeriesDelta
    \/ PairSetReferenceRequired
    \/ PairUpdate
    \/ PairBuild

SpecPair == InitPair /\ [][NextPair]_vars

\* The container that results from calls made on a fresh builder with no
\* other container around.
Alone(calls) ==
    LET Step[n \in 0..Len(calls)] ==
            IF n = 0 THEN ContainerNew
            ELSE LET c == calls[n]
                     before == [Step[n - 1] EXCEPT !.calls = Append(@, c)]
                 IN  CASE c.op = "set_read_names_included" ->
                              [before EXCEPT !.builder.read_names_included = c.flag]
                       [] c.op = "set_ap_data_series_delta" ->
                              [before EXCEPT !.builder.ap_data_series_delta = c.flag]
                       [] c.op = "set_reference_required" ->
                              [before EXCEPT !.builder.reference_required = c.flag]
                       [] c.op = "update" ->
                              [before EXCEPT !.builder =
                                  BuilderUpdate(@, c.arg.reference_sequence, c.arg.record)]
                       [] c.op = "build" ->
                              [before EXCEPT !.preservation_map = <<BuilderBuild(before.builder)>>,
                                             !.bstate = "moved"]
    IN  Step[Len(calls)]

PairBuilt(i) == pair[i].preservation_map # <<>>

\* The bytes of a header holding the PreservationMap pm and the tables dse, te.
HeaderBytes(pm, dse, te) == WriteCompressionHeader(CompressionHeaderNew(pm, dse, te))

C16_Independent ==
    /\ [](\A i \in Containers : pair[i] = Alone(pair[i].calls))
    /\ [][\A i \in Containers : pair[i].calls' = pair[i].calls => pair[i]' = pair[i]]_vars

C16_Witness ==
    /\ PairBuilt(1)
    /\ PairBuilt(2)
    /\ Len(pair[1].calls) = 2
    /\ Len(pair[2].calls) = 2
    /\ pair[1].calls[1].op = "update"
    /\ pair[2].calls[1].op = "set_reference_required"
    /\ pair[1].preservation_map[1].reference_required
    /\ ~pair[2].preservation_map[1].reference_required
    /\ pair[2].preservation_map[1].tag_ids_dictionary = <<>>
    /\ Len(pair[1].preservation_map[1].tag_ids_dictionary) = 1

(***************************************************************************)
(* The SAM header record @HD: noodles-sam header/header.rs (SpecSam).      *)
(***************************************************************************)
MaxFields == 2

\* static VERSION: &str = "1.6";
VERSION == "1.6"

\* header::Tag, and the raw tags a record can carry ("V" is no tag).
Tags == {"Version", "SortOrder", "GroupOrder"}

RawTags == {"VN", "SO", "GO", "V"}

RawValues == {"1.5", "coordinate"}

\* Option<String>.
None == <<>>

Some(value) == <<value>>

\* raw_tag.parse(): Result<Tag, tag::ParseError>.
ParseTag(raw_tag) ==
    CASE raw_tag = "VN" -> [ok |-> TRUE, tag |-> "Version"]
      [] raw_tag = "SO" -> [ok |-> TRUE, tag |-> "SortOrder"]
      [] raw_tag = "GO" -> [ok |-> TRUE, tag |-> "GroupOrder"]
      [] OTHER -> [ok |-> FALSE, tag |-> ""]

\* HashMap::new(): no tag has a value.
HashMapNew == [tag \in Tags |-> None]

\* struct Header { version, fields }.
Header(version, fields) == [version |-> version, fields |-> fields]

\* impl Default for Header.
HeaderDefault == Header(VERSION, HashMapNew)

\* Mutation: the struct update takes the version from the default, too.
HeaderNew_DefaultVersion(version) == HeaderDefault

\* Header::new: Self { version, ..Default::default() }.
HeaderNew(version) == [HeaderDefault EXCEPT !.version = version]

\* Header::fields, Header::get, Header::version.
HeaderFields(h) == h.fields

HeaderGet(h, tag) == h.fields[tag]

HeaderVersion(h) == h.version

\* Mutation: an existing value is kept (entry(tag).or_insert(value)).
HeaderInsert_KeepExisting(h, tag, value) ==
    [header |-> [h EXCEPT !.fields[tag] = IF @ = None THEN Some(value) ELSE @],
     ret |-> h.fields[tag]]

\* Header::insert: self.fields.insert(tag, value); the header afterwards and
\* the value returned.
HeaderInsert(h, tag, value) ==
    [header |-> [h EXCEPT !.fields[tag] = Some(value)],
     ret |-> h.fields[tag]]

\* Result<Header, TryFromRecordError>.
TryOk(h) == [ok |-> TRUE, header |-> Some(h), err |-> "", tag |-> ""]

TryErr(err, tag) == [ok |-> FALSE, header |-> None, err |-> err, tag |-> tag]

\* The state of parse_map's loop after the first n raw fields.
ParseLoop(raw_fields) ==
    LET Loop[n \in 0..Len(raw_fields)] ==
            IF n = 0
            THEN [invalid |-> FALSE, version |-> None, fields |-> HashMapNew]
            ELSE LET at == Loop[n - 1]
                     tag == ParseTag(raw_fields[n][1])
                     value == raw_fields[n][2]
                 IN  IF at.invalid THEN at
                     ELSE IF ~tag.ok THEN [at EXCEPT !.invalid = TRUE]
                     ELSE IF tag.tag = "Version" THEN [at EXCEPT !.version = Some(value)]
                     ELSE [at EXCEPT !.fields[tag.tag] = Some(value)]
    IN  Loop[Len(raw_fields)]

\* Mutation: a record without VN gets the default version (unwrap_or).
ParseMap_DefaultVersion(raw_fields) ==
    LET end == ParseLoop(raw_fields)
    IN  IF end.invalid THEN TryErr("InvalidTag", "")
        ELSE IF end.version = None THEN TryOk(Header(VERSION, end.fields))
        ELSE TryOk(Header(end.version[1], end.fields))

\* fn parse_map.
ParseMap(raw_fields) ==
    LET end == ParseLoop(raw_fields)
    IN  IF end.invalid THEN TryErr("InvalidTag", "")
        ELSE IF end.version = None THEN TryErr("MissingRequiredTag", "Version")
        ELSE TryOk(Header(end.version[1], end.fields))

\* header::Record as record.into() gives it: (Kind, Value).
Record(kind, value) == [kind |-> kind, value |-> value]

ValueMap(raw_fields) == [variant |-> "Map", fields |-> raw_fields, string |-> ""]

ValueString(string) == [variant |-> "String", fields |-> <<>>, string |-> string]

\* impl TryFrom<Record> for Header.
TryFrom(record) ==
    IF record.kind = "Header" /\ record.value.variant = "Map"
    THEN ParseMap(record.value.fields)
    ELSE TryErr("InvalidRecord", "")

\* The records the model converts.
RawFields == UNION {[1..n -> RawTags \X RawValues] : n \in 0..MaxFields}

Records ==
    {Record("Header", ValueMap(f)) : f \in RawFields}
    \cup {Record("Comment", ValueString("noodles-sam")),
          Record("Comment", ValueMap(<<>>)),
          Record("Header", ValueString("noodles-sam"))}

\* The last call: its name, its arguments, what it returned, and for a
\* method the header it was made on.
Did(op, tag, value, record, ret, before) ==
    [op |-> op, tag |-> tag, value |-> value, record |-> record, ret |-> ret, before |-> before]

NoRecord == Record("", ValueString(""))

InitSam ==
    /\ builder = BuilderDefault
    /\ bstate = "live"
    /\ preservation_map = <<>>
    /\ update_log = <<>>
    /\ setter_called = FALSE
    /\ ReaderIdle
    /\ pair = <<>>
    /\ hdr = <<>>
    /\ last = Did("", "", "", NoRecord, None, <<>>)
    /\ FunctionsIdle

\* let header = Header::default();
header_default ==
    /\ hdr' = <<HeaderDefault>>
    /\ last' = Did("default", "", "", NoRecord, None, <<>>)
    /\ UNCHANGED <<bvars, rvars, pair>>
    /\ UNCHANGED fvars

\* let header = Header::new(version);
header_new(version) ==
    /\ hdr' = <<HeaderNew(version)>>
    /\ last' = Did("new", "", version, NoRecord, None, <<>>)
    /\ UNCHANGED <<bvars, rvars, pair>>
    /\ UNCHANGED fvars

\* *header.version_mut() = version;
version_mut(version) ==
    /\ hdr # <<>>
    /\ hdr' = <<[hdr[1] EXCEPT !.version = version]>>
    /\ last' = Did("version_mut", "", version, NoRecord, None, hdr)
    /\ UNCHANGED <<bvars, rvars, pair>>
    /\ UNCHANGED fvars

\* header.insert(tag, value)
insert(tag, value) ==
    /\ hdr # <<>>
    /\ hdr' = <<HeaderInsert(hdr[1], tag, value).header>>
    /\ last' = Did("insert", tag, value, NoRecord, HeaderInsert(hdr[1], tag, value).ret, hdr)
    /\ UNCHANGED <<bvars, rvars, pair>>
    /\ UNCHANGED fvars

\* Header::try_from(record): Ok gives the caller a header, Err gives none.
try_from(record) ==
    /\ hdr' = TryFrom(record).header
    /\ last' = Did("try_from", "", "", record, TryFrom(record), <<>>)
    /\ UNCHANGED <<bvars, rvars, pair>>
    /\ UNCHANGED fvars

HeaderNewCall == \E version \in RawValues : header_new(version)

VersionMut == \E version \in RawValues : version_mut(version)

Insert == \E tag \in Tags, value \in RawValues : insert(tag, value)

TryFromRecord == \E record \in Records : try_from(record)

NextSam ==
    \/ header_default
    \/ HeaderNewCall
    \/ VersionMut
    \/ Insert
    \/ TryFromRecord

SpecSam == InitSam /\ [][NextSam]_vars

HasHeader == hdr # <<>>

\* C17 (as claimed): the fields map that fields() returns and get() consults
\* never holds a value for Tag::Version.  It does not hold: insert stores any
\* tag, Tag::Version too.
C17_NoVersionInFields ==
    HasHeader =>
        /\ HeaderFields(hdr[1])["Version"] = None
        /\ HeaderGet(hdr[1], "Version") = None

\* The raw tags of a record's map, and the index of its last VN field.
RawTagsOf(record) == {record.value.fields[i][1] : i \in 1..Len(record.value.fields)}

LastVersionField(record) ==
    CHOOSE i \in 1..Len(record.value.fields) :
        /\ record.value.fields[i][1] = "VN"
        /\ \A j \in (i + 1)..Len(record.value.fields) : record.value.fields[j][1] # "VN"

\* C18: converting a Header record whose map has valid tags only and no VN
\* fails with MissingRequiredTag(Version); a conversion that succeeds was given
\* a VN field, and the header's version is the value of that field.
C18_VersionRequired ==
    last.op = "try_from" =>
        /\ ( /\ last.record.kind = "Header"
             /\ last.record.value.variant = "Map"
             /\ \A raw_tag \in RawTagsOf(last.record) : ParseTag(raw_tag).ok
             /\ "VN" \notin RawTagsOf(last.record) )
           => /\ last.ret = TryErr("MissingRequiredTag", "Version")
              /\ ~HasHeader
        /\ last.ret.ok =>
               /\ "VN" \in RawTagsOf(last.record)
               /\ HasHeader
               /\ hdr = last.ret.header
               /\ HeaderVersion(hdr[1]) =
                      last.record.value.fields[LastVersionField(last.record)][2]
        /\ HasHeader <=> last.ret.ok

C18_Witness ==
    /\ last.op = "try_from"
    /\ last.record.kind = "Header"
    /\ Len(last.record.value.fields) = MaxFields
    /\ RawTagsOf(last.record) = {"SO", "GO"}
    /\ last.ret = TryErr("MissingRequiredTag", "Version")

\* C19: Header::default() has version "1.6" and no field; Header::new(v) has
\* version v and no field.
C19_DefaultAndNew ==
    /\ last.op = "default" =>
           /\ HeaderVersion(hdr[1]) = "1.6"
           /\ \A tag \in Tags : HeaderGet(hdr[1], tag) = None
    /\ last.op = "new" =>
           /\ HeaderVersion(hdr[1]) = last.value
           /\ \A tag \in Tags : HeaderGet(hdr[1], tag) = None

C19_Witness ==
    /\ last.op = "new"
    /\ last.value = "1.5"
    /\ HeaderVersion(hdr[1]) = "1.5"
    /\ HeaderFields(hdr[1]) = HashMapNew

\* C20: insert(tag, value) returns the value tag had before (None if it had
\* none); afterwards get(tag) is value, and the version and the value of every
\* other tag are as before.
C20_InsertSemantics ==
    last.op = "insert" =>
        /\ last.ret = HeaderGet(last.before[1], last.tag)
        /\ HeaderGet(hdr[1], last.tag) = Some(last.value)
        /\ HeaderVersion(hdr[1]) = HeaderVersion(last.before[1])
        /\ \A tag \in Tags \ {last.tag} :
               HeaderGet(hdr[1], tag) = HeaderGet(last.before[1], tag)

C20_Witness ==
    /\ last.op = "insert"
    /\ last.tag = "SortOrder"
    /\ last.ret = Some("1.5")
    /\ last.value = "coordinate"
    /\ HeaderGet(hdr[1], "SortOrder") = Some("coordinate")
    /\ HeaderGet(hdr[1], "GroupOrder") = Some("1.5")
    /\ HeaderVersion(hdr[1]) = "1.5"

(***************************************************************************)
(* Data field values: noodles-sam and noodles-bam                          *)
(* record/data/field/value.rs (SpecValue).                                 *)
(***************************************************************************)
\* enum Value of noodles-sam, in declaration order.
SamVariants ==
    <<"Char", "Int32", "Float", "String", "Hex",
      "Int8Array", "UInt8Array", "Int16Array", "UInt16Array",
      "Int32Array", "UInt32Array", "FloatArray">>

\* enum Value of noodles-bam, in declaration order.
BamVariants ==
    <<"Char", "Int8", "UInt8", "Int16", "UInt16", "Int32", "UInt32", "Float", "String", "Hex",
      "Int8Array", "UInt8Array", "Int16Array", "UInt16Array",
      "Int32Array", "UInt32Array", "FloatArray">>

\* What a variant holds, written as text; the methods never look into it.
Payloads == {"0", "1"}

\* A value: the crate of its enum, its variant and what the variant holds.
Value(format, variant, payload) == [format |-> format, variant |-> variant, payload |-> payload]

\* noodles-sam Value::ty: one match arm per variant.
SamTy(value) ==
    CASE value.variant = "Char" -> "Char"
      [] value.variant = "Int32" -> "Int32"
      [] value.variant = "Float" -> "Float"
      [] value.variant = "String" -> "String"
      [] value.variant = "Hex" -> "Hex"
      [] value.variant = "Int8Array" -> "Array"
      [] value.variant = "UInt8Array" -> "Array"
      [] value.variant = "Int16Array" -> "Array"
      [] value.variant = "UInt16Array" -> "Array"
      [] value.variant = "Int32Array" -> "Array"
      [] value.variant = "UInt32Array" -> "Array"
      [] value.variant = "FloatArray" -> "Array"

\* Mutation: the scalar Int32 has a subtype, too.
SamSubtype_Int32Scalar(value) ==
    CASE value.variant = "Int8Array" -> Some("Int8")
      [] value.variant = "UInt8Array" -> Some("UInt8")
      [] value.variant = "Int16Array" -> Some("Int16")
      [] value.variant = "UInt16Array" -> Some("UInt16")
      [] value.variant = "Int32Array" -> Some("Int32")
      [] value.variant = "Int32" -> Some("Int32")
      [] value.variant = "UInt32Array" -> Some("UInt32")
      [] value.variant = "FloatArray" -> Some("Float")
      [] OTHER -> None

\* noodles-sam Value::subtype.
SamSubtype(value) ==
    CASE value.variant = "Int8Array" -> Some("Int8")
      [] value.variant = "UInt8Array" -> Some("UInt8")
      [] value.variant = "Int16Array" -> Some("Int16")
      [] value.variant = "UInt16Array" -> Some("UInt16")
      [] value.variant = "Int32Array" -> Some("Int32")
      [] value.variant = "UInt32Array" -> Some("UInt32")
      [] value.variant = "FloatArray" -> Some("Float")
      [] OTHER -> None

\* Mutation: as_hex matches Value::String.
SamAccessors_HexOfString ==
    [char |-> "Char", int32 |-> "Int32", float |-> "Float", str |-> "String", hex |-> "String",
     int8_array |-> "Int8Array", uint8_array |-> "UInt8Array",
     int16_array |-> "Int16Array", uint16_array |-> "UInt16Array",
     int32_array |-> "Int32Array", uint32_array |-> "UInt32Array",
     float_array |-> "FloatArray"]

\* noodles-sam: the variant that the one binding arm of as_X matches, by X.
SamAccessors ==
    [char |-> "Char", int32 |-> "Int32", float |-> "Float", str |-> "String", hex |-> "Hex",
     int8_array |-> "Int8Array", uint8_array |-> "UInt8Array",
     int16_array |-> "Int16Array", uint16_array |-> "UInt16Array",
     int32_array |-> "Int32Array", uint32_array |-> "UInt32Array",
     float_array |-> "FloatArray"]

\* noodles-sam Value::as_X: Some(payload) in the binding arm, else None.
SamAs(x, value) == IF value.variant = SamAccessors[x] THEN Some(value.payload) ELSE None

\* noodles-sam Value::is_X: self.as_X().is_some().
SamIs(x, value) == SamAs(x, value) # None

\* noodles-bam Value::ty.
BamTy(value) ==
    CASE value.variant = "Char" -> "Char"
      [] value.variant = "Int8" -> "Int8"
      [] value.variant = "UInt8" -> "UInt8"
      [] value.variant = "Int16" -> "Int16"
      [] value.variant = "UInt16" -> "UInt16"
      [] value.variant = "Int32" -> "Int32"
      [] value.variant = "UInt32" -> "UInt32"
      [] value.variant = "Float" -> "Float"
      [] value.variant = "String" -> "String"
      [] value.variant = "Hex" -> "Hex"
      [] value.variant = "Int8Array" -> "Array"
      [] value.variant = "UInt8Array" -> "Array"
      [] value.variant = "Int16Array" -> "Array"
      [] value.variant = "UInt16Array" -> "Array"
      [] value.variant = "Int32Array" -> "Array"
      [] value.variant = "UInt32Array" -> "Array"
      [] value.variant = "FloatArray" -> "Array"

\* noodles-bam Value::subtype.
BamSubtype(value) ==
    CASE value.variant = "Int8Array" -> Some("Int8")
      [] value.variant = "UInt8Array" -> Some("UInt8")
      [] value.variant = "Int16Array" -> Some("Int16")
      [] value.variant = "UInt16Array" -> Some("UInt16")
      [] value.variant = "Int32Array" -> Some("Int32")
      [] value.variant = "UInt32Array" -> Some("UInt32")
      [] value.variant = "FloatArray" -> Some("Float")
      [] OTHER -> None

\* noodles-bam: the variant that the one binding arm of as_X matches, by X.
BamAccessors ==
    [char |-> "Char", int8 |-> "Int8", uint8 |-> "UInt8", int16 |-> "Int16",
     uint16 |-> "UInt16", int32 |-> "Int32", uint32 |-> "UInt32", float |-> "Float",
     str |-> "String", hex |-> "Hex",
     int8_array |-> "Int8Array", uint8_array |-> "UInt8Array",
     int16_array |-> "Int16Array", uint16_array |-> "UInt16Array",
     int32_array |-> "Int32Array", uint32_array |-> "UInt32Array",
     float_array |-> "FloatArray"]

\* noodles-bam Value::as_X and Value::is_X.
BamAs(x, value) == IF value.variant = BamAccessors[x] THEN Some(value.payload) ELSE None

BamIs(x, value) == BamAs(x, value) # None

\* The methods of the value's own crate.
AccessorsOf(value) == IF value.format = "sam" THEN DOMAIN SamAccessors ELSE DOMAIN BamAccessors

ValueTy(value) == IF value.format = "sam" THEN SamTy(value) ELSE BamTy(value)

ValueSubtype(value) == IF value.format = "sam" THEN SamSubtype(value) ELSE BamSubtype(value)

ValueAs(x, value) == IF value.format = "sam" THEN SamAs(x, value) ELSE BamAs(x, value)

ValueIs(x, value) == IF value.format = "sam" THEN SamIs(x, value) ELSE BamIs(x, value)

\* The values the methods are called on.
Values ==
    {Value("sam", SamVariants[i], p) : i \in 1..Len(SamVariants), p \in Payloads}
    \cup {Value("bam", BamVariants[i], p) : i \in 1..Len(BamVariants), p \in Payloads}

\* A call: the method, the X of as_X and is_X, and what the call returned.
Outcome(method, x, out) == [call |-> method, x |-> x, out |-> out]

InitValue ==
    /\ builder = BuilderDefault
    /\ bstate = "live"
    /\ preservation_map = <<>>
    /\ update_log = <<>>
    /\ setter_called = FALSE
    /\ ReaderIdle
    /\ pair = <<>>
    /\ hdr = <<>>
    /\ last = <<>>
    /\ subject \in Values
    /\ outcome = Outcome("", "", None)

\* value.ty()
value_ty ==
    /\ outcome' = Outcome("ty", "", ValueTy(subject))
    /\ UNCHANGED <<bvars, rvars, ovars, subject>>

\* value.subtype()
value_subtype ==
    /\ outcome' = Outcome("subtype", "", ValueSubtype(subject))
    /\ UNCHANGED <<bvars, rvars, ovars, subject>>

\* value.as_X()
value_as(x) ==
    /\ outcome' = Outcome("as", x, ValueAs(x, subject))
    /\ UNCHANGED <<bvars, rvars, ovars, subject>>

\* value.is_X()
value_is(x) ==
    /\ outcome' = Outcome("is", x, ValueIs(x, subject))
    /\ UNCHANGED <<bvars, rvars, ovars, subject>>

NextValue ==
    \/ value_ty
    \/ value_subtype
    \/ \E x \in AccessorsOf(subject) : value_as(x)
    \/ \E x \in AccessorsOf(subject) : value_is(x)

SpecValue == InitValue /\ [][NextValue]_vars

\* The element types an array can have, and the variants that are arrays.
ElementTypes == {"Int8", "UInt8", "Int16", "UInt16", "Int32", "UInt32", "Float"}

IsArrayVariant(variant) == \E element \in ElementTypes : variant = element \o "Array"

\* C21: subtype() is Some exactly when ty() is Array, and then it names the
\* element type of the array variant; ty() of an array variant is Array and
\* ty() of any other variant is the type of that variant's own name.
C21_OnlyArraysHaveSubtypes ==
    /\ outcome.call = "subtype" =>
           /\ outcome.out # None <=> ValueTy(subject) = "Array"
           /\ outcome.out # None <=> IsArrayVariant(subject.variant)
           /\ outcome.out # None =>
                  /\ outcome.out[1] \in ElementTypes
                  /\ subject.variant = outcome.out[1] \o "Array"
    /\ outcome.call = "ty" =>
           /\ IsArrayVariant(subject.variant) => outcome.out = "Array"
           /\ ~IsArrayVariant(subject.variant) => outcome.out = subject.variant
           /\ outcome.out = "Array" <=> ValueSubtype(subject) # None

C21_Witness ==
    /\ subject.format = "bam"
    /\ subject.variant = "UInt16Array"
    /\ outcome.call = "subtype"
    /\ outcome.out = Some("UInt16")

\* The variant that the accessors as_X and is_X are named after, by X.
VariantNamed ==
    [char |-> "Char", int8 |-> "Int8", uint8 |-> "UInt8", int16 |-> "Int16",
     uint16 |-> "UInt16", int32 |-> "Int32", uint32 |-> "UInt32", float |-> "Float",
     str |-> "String", hex |-> "Hex",
     int8_array |-> "Int8Array", uint8_array |-> "UInt8Array",
     int16_array |-> "Int16Array", uint16_array |-> "UInt16Array",
     int32_array |-> "Int32Array", uint32_array |-> "UInt32Array",
     float_array |-> "FloatArray"]

MaxInfoFields == 6

\* k.parse::<Key>(): the four keys try_from matches on; any other outcome
\* of the parse takes the `_` arm.
ParseKey(k) ==
    CASE k = "ID" -> "Id"
      [] k = "Number" -> "Number"
      [] k = "Type" -> "Type"
      [] k = "Description" -> "Description"
      [] OTHER -> "Other"

\* v.parse::<Number>().
ParseNumber(v) ==
    IF v = "1" THEN [ok |-> TRUE, val |-> "Count(1)"] ELSE [ok |-> FALSE, val |-> ""]

\* v.parse::<Type>().
ParseType(v) ==
    IF v \in {"Integer", "Float", "Character", "String", "Flag"}
    THEN [ok |-> TRUE, val |-> v]
    ELSE [ok |-> FALSE, val |-> ""]

\* The keys a field of the model can have.
RawKeys == {"ID", "Number", "Type", "Description", "Source"}

\* it.cloned().collect(): the fields from index from on, inserted in order
\* into a HashMap (a later value of a key replaces the earlier one).
Collect(fields, from) ==
    LET Inserted[n \in (from - 1)..Len(fields)] ==
            IF n < from THEN [k \in RawKeys |-> None]
            ELSE [Inserted[n - 1] EXCEPT ![fields[n][1]] = Some(fields[n][2])]
    IN  Inserted[IF Len(fields) < from THEN from - 1 ELSE Len(fields)]

\* struct Info.
Info(id, number, ty, description, fields) ==
    [id |-> id, number |-> number, ty |-> ty, description |-> description, fields |-> fields]

\* Result<Info, ParseError>.
InfoOk(info) == [ok |-> TRUE, info |-> Some(info), err |-> "", key |-> ""]

InfoErr(err, key) == [ok |-> FALSE, info |-> None, err |-> err, key |-> key]

\* Mutation: the map is collected from all fields, not from the rest of it.
InfoTryFrom_CollectsAll(fields) ==
    IF Len(fields) < 1 THEN InfoErr("MissingField", "Id")
    ELSE IF ParseKey(fields[1][1]) # "Id" THEN InfoErr("MissingField", "Id")
    ELSE IF Len(fields) < 2 THEN InfoErr("MissingField", "Number")
    ELSE IF ParseKey(fields[2][1]) # "Number" THEN InfoErr("MissingField", "Id")
    ELSE IF ~ParseNumber(fields[2][2]).ok THEN InfoErr("InvalidNumber", "")
    ELSE IF Len(fields) < 3 THEN InfoErr("MissingField", "Type")
    ELSE IF ParseKey(fields[3][1]) # "Type" THEN InfoErr("MissingField", "Type")
    ELSE IF ~ParseType(fields[3][2]).ok THEN InfoErr("InvalidType", "")
    ELSE IF Len(fields) < 4 THEN InfoErr("MissingField", "Description")
    ELSE IF ParseKey(fields[4][1]) # "Description" THEN InfoErr("MissingField", "Description")
    ELSE InfoOk(Info(fields[1][2], ParseNumber(fields[2][2]).val, ParseType(fields[3][2]).val,
                     fields[4][2], Collect(fields, 1)))

\* impl TryFrom<&[(String, String)]> for Info: it.next() four times, each
\* with its own errors, then the rest of it into the map.
InfoTryFrom(fields) ==
    \* let id = ... (lines 56-62)
    IF Len(fields) < 1 THEN InfoErr("MissingField", "Id")
    ELSE IF ParseKey(fields[1][1]) # "Id" THEN InfoErr("MissingField", "Id")
    \* let number = ... (lines 64-70); the `_` arm names Key::Id
    ELSE IF Len(fields) < 2 THEN InfoErr("MissingField", "Number")
    ELSE IF ParseKey(fields[2][1]) # "Number" THEN InfoErr("MissingField", "Id")
    ELSE IF ~ParseNumber(fields[2][2]).ok THEN InfoErr("InvalidNumber", "")
    \* let ty = ... (lines 72-78)
    ELSE IF Len(fields) < 3 THEN InfoErr("MissingField", "Type")
    ELSE IF ParseKey(fields[3][1]) # "Type" THEN InfoErr("MissingField", "Type")
    ELSE IF ~ParseType(fields[3][2]).ok THEN InfoErr("InvalidType", "")
    \* let description = ... (lines 80-86)
    ELSE IF Len(fields) < 4 THEN InfoErr("MissingField", "Description")
    ELSE IF ParseKey(fields[4][1]) # "Description" THEN InfoErr("MissingField", "Description")
    \* Ok(Self { .., fields: it.cloned().collect() }) (lines 88-94)
    ELSE InfoOk(Info(fields[1][2], ParseNumber(fields[2][2]).val, ParseType(fields[3][2]).val,
                     fields[4][2], Collect(fields, 5)))

\* The field a slice can have at position i (1-based): the key required
\* there or another one, a value that parses or one that does not; after
\* the fourth, any of two keys with any of two values.
FieldsAt(i) ==
    CASE i = 1 -> {"ID", "Number", "Source"} \X {"NS"}
      [] i = 2 -> {"Number", "ID", "Type"} \X {"1", "Noodles"}
      [] i = 3 -> {"Type", "Description"} \X {"Integer", "Noodles"}
      [] i = 4 -> {"Description", "Source"} \X {"Number of samples with data"}
      [] OTHER -> {"Source", "ID"} \X {"dbsnp", "138"}

\* The slices given to Info::try_from.
FieldSlices ==
    UNION {{[i \in 1..n |-> CASE i = 1 -> a [] i = 2 -> b [] i = 3 -> c [] i = 4 -> d
                               [] OTHER -> rest[i]] :
                a \in FieldsAt(1), b \in FieldsAt(2), c \in FieldsAt(3), d \in FieldsAt(4),
                rest \in [5..n -> FieldsAt(5)]} :
           n \in 0..MaxInfoFields}

InitInfo ==
    /\ builder = BuilderDefault
    /\ bstate = "live"
    /\ preservation_map = <<>>
    /\ update_log = <<>>
    /\ setter_called = FALSE
    /\ ReaderIdle
    /\ pair = <<>>
    /\ hdr = <<>>
    /\ last = <<>>
    /\ subject \in FieldSlices
    /\ outcome = Outcome("", "", InfoErr("", ""))

\* Info::try_from(&fields[..])
info_try_from ==
    /\ outcome' = Outcome("try_from", "", InfoTryFrom(subject))
    /\ UNCHANGED <<bvars, rvars, ovars, subject>>

NextInfo == info_try_from

SpecInfo == InitInfo /\ [][NextInfo]_vars

\* The raw key and the Key required at each of the first four positions.
RequiredRawKeys == <<"ID", "Number", "Type", "Description">>

RequiredKeys == <<"Id", "Number", "Type", "Description">>

Tried == outcome.call = "try_from"

\* Position i of the slice is there and carries the key required at i.
InPlace(fields, i) == i <= Len(fields) /\ fields[i][1] = RequiredRawKeys[i]

\* The values of the Number and Type fields before position i parse.
ParsableBefore(fields, i) ==
    /\ i > 2 => ParseNumber(fields[2][2]).ok
    /\ i > 3 => ParseType(fields[3][2]).ok

\* C23: try_from succeeds exactly when the first four fields carry the keys
\* ID, Number, Type, Description in this order and the Number and Type values
\* parse; the Info then holds the four values by position, and its map holds
\* the keys of the fields after the fourth and of no other field, each with
\* the value of the last field after the fourth that carries it.
C23_PositionalFields ==
    Tried =>
        /\ outcome.out.ok <=>
               /\ \A i \in 1..4 : InPlace(subject, i)
               /\ ParsableBefore(subject, 4)
        /\ outcome.out.ok =>
               LET info == outcome.out.info[1]
               IN  /\ info.id = subject[1][2]
                   /\ info.number = ParseNumber(subject[2][2]).val
                   /\ info.ty = ParseType(subject[3][2]).val
                   /\ info.description = subject[4][2]
                   /\ \A k \in RawKeys :
                          /\ info.fields[k] # None <=>
                                 \E i \in 5..Len(subject) : subject[i][1] = k
                          /\ info.fields[k] # None =>
                                 \E i \in 5..Len(subject) :
                                     /\ subject[i] = <<k, info.fields[k][1]>>
                                     /\ \A j \in (i + 1)..Len(subject) : subject[j][1] # k

C23_Witness ==
    /\ Tried
    /\ outcome.out.ok
    /\ Len(subject) = 6
    /\ outcome.out.info[1].id = "NS"
    /\ outcome.out.info[1].fields["Source"] = Some("dbsnp")
    /\ outcome.out.info[1].fields["ID"] = Some("138")
    /\ outcome.out.info[1].fields["Number"] = None

\* C25 (as claimed): when i is the first of the four positions that is absent
\* or carries another key (the values before it parsing), the error is
\* MissingField of the key required at i.  It does not hold at the Number
\* position: another key there gives MissingField(Id) (line 69).
C25_MissingFieldNamed ==
    Tried =>
        \A i \in 1..4 :
            ( /\ ~InPlace(subject, i)
              /\ \A j \in 1..(i - 1) : InPlace(subject, j)
              /\ ParsableBefore(subject, i) )
            => outcome.out = InfoErr("MissingField", RequiredKeys[i])

(***************************************************************************)
(* BAM base qualities: src/formats/bam/quality.rs (SpecQuality).           *)
(***************************************************************************)
MaxQual == 3

\* const QUALITY_OFFSET: u8 = b'!';
QUALITY_OFFSET == 33

\* The scores a Quality is made of: u8 values, among them the largest that
\* still has a character below 256 and the byte BAM stores for no quality.
QualScores == {0, 29, 93, 222, 223, 255}

\* Quality::new(qual), and the build it runs in: with overflow checks an
\* overflowing u8 addition panics, without them it wraps.
Quality(qual, overflow_checks) == [qual |-> qual, overflow_checks |-> overflow_checks]

\* b + QUALITY_OFFSET in u8: the sum, and whether it overflowed.
AddOffset(b) ==
    [sum |-> (b + QUALITY_OFFSET) % 256, overflow |-> b + QUALITY_OFFSET > 255]

\* struct Chars over self.qual.iter(): the next index from the front, the
\* next from the back, the last call with its result, the characters
\* yielded so far (each with the index of its score), and whether a call
\* panicked.
Chars(call, front, back, out, yielded, panicked) ==
    [call |-> call, front |-> front, back |-> back, out |-> out,
     yielded |-> yielded, panicked |-> panicked]

NoChars == Chars("", 0, 0, None, <<>>, FALSE)

\* self.chars.next().map(|b| (b + QUALITY_OFFSET) as char) on the score at
\* index i, the iterator moving on to front, back.
Yield(call, i, front, back) ==
    LET c == AddOffset(subject.qual[i])
    IN  IF c.overflow /\ subject.overflow_checks
        THEN [outcome EXCEPT !.call = call, !.out = None, !.panicked = TRUE]
        ELSE Chars(call, front, back, Some(c.sum),
                   Append(outcome.yielded, [index |-> i, char |-> c.sum]), FALSE)

InitQuality ==
    /\ builder = BuilderDefault
    /\ bstate = "live"
    /\ preservation_map = <<>>
    /\ update_log = <<>>
    /\ setter_called = FALSE
    /\ ReaderIdle
    /\ pair = <<>>
    /\ hdr = <<>>
    /\ last = <<>>
    /\ \E qual \in UNION {[1..n -> QualScores] : n \in 0..MaxQual}, checks \in BOOLEAN :
           subject = Quality(qual, checks)
    /\ outcome = NoChars

\* quality.chars()
chars ==
    /\ outcome.call = ""
    /\ outcome' = Chars("chars", 1, Len(subject.qual), None, <<>>, FALSE)
    /\ UNCHANGED <<bvars, rvars, ovars, subject>>

\* Iterator::next for Chars
next ==
    /\ outcome.call # ""
    /\ ~outcome.panicked
    /\ outcome' = IF outcome.front > outcome.back
                  THEN [outcome EXCEPT !.call = "next", !.out = None]
                  ELSE Yield("next", outcome.front, outcome.front + 1, outcome.back)
    /\ UNCHANGED <<bvars, rvars, ovars, subject>>

\* DoubleEndedIterator::next_back for Chars
next_back ==
    /\ outcome.call # ""
    /\ ~outcome.panicked
    /\ outcome' = IF outcome.front > outcome.back
                  THEN [outcome EXCEPT !.call = "next_back", !.out = None]
                  ELSE Yield("next_back", outcome.back, outcome.front, outcome.back - 1)
    /\ UNCHANGED <<bvars, rvars, ovars, subject>>

NextQuality ==
    \/ chars
    \/ next
    \/ next_back

SpecQuality == InitQuality /\ [][NextQuality]_vars

\* The iterator has been run to its end by next alone (collect).
Collected ==
    /\ outcome.call = "next"
    /\ outcome.out = None
    /\ \A k \in 1..Len(outcome.yielded) : outcome.yielded[k].index = k

\* C24 (as claimed): chars() yields for every stored score, in order, the
\* character score + 33, as many characters as scores.  It does not hold for
\* the scores 223..255: score + 33 does not fit u8, and next panics or wraps.
C24_CharsAddOffset ==
    /\ ~outcome.panicked
    /\ \A k \in 1..Len(outcome.yielded) :
           outcome.yielded[k].char = subject.qual[outcome.yielded[k].index] + 33
    /\ Collected =>
           /\ Len(outcome.yielded) = Len(subject.qual)
           /\ \A k \in 1..Len(subject.qual) : outcome.yielded[k].char - 33 = subject.qual[k]

====
